---------------------------- MODULE Spec2Model ----------------------------
(***************************************************************************)
(* A model of pyAccess.py: the DataBase loader (TableList, GetRelationships,*)
(* LoadTables), the Table descriptor builder (GetPrimaryKeys, GetSQL,       *)
(* GetColumnMetaData) and the lookup extractor (GetLookupProperties).       *)
(*                                                                         *)
(* Names are sequences of one-character strings, so that str.startswith    *)
(* and the substring test '~' in name are computed as Python computes them. *)
(* Python values whose type varies at one place (None, '', 0, a dict, a     *)
(* bool) are tagged records.                                                *)
(***************************************************************************)
EXTENDS Integers, Sequences, FiniteSets, TLC

(* ------------------------------ bounds -------------------------------- *)
MaxTables == 2
MaxQueries == 2
MaxRelations == 2
MaxIndexes == 2
MaxColumns == 2

(* --------------------------- Python values ---------------------------- *)
None == [none |-> TRUE]
PyInt(n) == [int |-> n]
PyStr(s) == [str |-> s]
PyBool(b) == [bool |-> b]
PyDict(d) == [dict |-> d]

\* An empty dict(): the function with the empty domain.
EmptyDict == << >>

\* d[k] = v on a dict d.
DictSet(d, k, v) == [x \in (DOMAIN d) \cup {k} |-> IF x = k THEN v ELSE d[x]]

\* str.startswith(prefix)
StartsWith(s, prefix) ==
    /\ Len(s) >= Len(prefix)
    /\ SubSeq(s, 1, Len(prefix)) = prefix

\* c in s, for a one-character c
Contains(s, c) == \E i \in 1..Len(s) : s[i] = c

\* No element occurs twice: the names of a DAO collection are unique.
Distinct(s) == \A i, j \in 1..Len(s) : i /= j => s[i] /= s[j]

Range(s) == {s[i] : i \in 1..Len(s)}

(* ============================ class Table ============================== *)

\* The if/elif chain of GetColumnMetaData on Field.Type and Field.Attributes.
ClassifyColumnOnly17(Type, Attributes) ==
    IF Type = 1 THEN "Yes/No"
    ELSE IF Type = 4 THEN (IF Attributes = 17 THEN "Autonumber" ELSE "LongInteger")
    ELSE IF Type = 7 THEN "Double"
    ELSE IF Type = 8 THEN "Date/Time"
    ELSE IF Type = 10 THEN "ShortText"
    ELSE "UNKNOWN"

ClassifyColumn(Type, Attributes) ==
    IF Type = 1 THEN "Yes/No"
    ELSE IF Type = 4 THEN (IF Attributes \in {17, 18} THEN "Autonumber" ELSE "LongInteger")
    ELSE IF Type = 7 THEN "Double"
    ELSE IF Type = 8 THEN "Date/Time"
    ELSE IF Type = 10 THEN "ShortText"
    ELSE "UNKNOWN"

ColumnMeta(Name, Type, Size) == [Name |-> Name, Type |-> Type, Size |-> Size]

\* One ColumnMeta per field of table_meta.Fields, in order.
GetColumnMetaData(table_meta) ==
    [i \in 1..Len(table_meta.Fields) |->
        LET Field == table_meta.Fields[i]
        IN  ColumnMeta(Field.Name, ClassifyColumn(Field.Type, Field.Attributes), Field.Size)]

\* What one index appends to PKs: its field names when idx.Primary.
IndexKeysAnyIndex(idx) == [i \in 1..Len(idx.Fields) |-> idx.Fields[i].Name]

IndexKeys(idx) ==
    IF idx.Primary
    THEN [i \in 1..Len(idx.Fields) |-> idx.Fields[i].Name]
    ELSE << >>

RECURSIVE AppendIndexKeys(_, _)
AppendIndexKeys(PKs, Indexes) ==
    IF Indexes = << >> THEN PKs
    ELSE AppendIndexKeys(PKs \o IndexKeys(Head(Indexes)), Tail(Indexes))

GetPrimaryKeys(table_meta) == AppendIndexKeys(<< >>, table_meta.Indexes)

GetSQLStartsWith(query) ==
    IF ~StartsWith(query.Name, <<"~">>) THEN PyStr(query.SQL) ELSE PyInt(0)

GetSQL(query) ==
    IF ~Contains(query.Name, "~") THEN PyStr(query.SQL) ELSE PyInt(0)

\* Table.__init__: the attributes the constructor sets on self.
TableInit(table_meta, isTable) ==
    IF table_meta = None THEN EmptyDict
    ELSE IF isTable
    THEN [Name |-> table_meta.Name,
          TableType |-> "TABLE",
          RecordCount |-> PyInt(table_meta.RecordCount),
          PrimaryKeys |-> GetPrimaryKeys(table_meta),
          ForeignKeys |-> PyStr(""),
          ColumnMetaData |-> GetColumnMetaData(table_meta),
          ColumnCount |-> Len(GetColumnMetaData(table_meta))]
    ELSE [Name |-> table_meta.Name,
          TableType |-> "QUERY",
          SQL |-> GetSQL(table_meta),
          RecordCount |-> None,
          ColumnMetaData |-> GetColumnMetaData(table_meta),
          ColumnCount |-> Len(GetColumnMetaData(table_meta))]

\* An exception raised out of a call.
Raised(exception) == [raised |-> exception]

IsRaised(result) == "raised" \in DOMAIN result

Lookup(DisplayControl, RowSourceType, RowSource, BoundColumn, ColumnCount, ColumnWidths, LimitToList) ==
    [DisplayControl |-> DisplayControl, RowSourceType |-> RowSourceType,
     RowSource |-> RowSource, BoundColumn |-> BoundColumn, ColumnCount |-> ColumnCount,
     ColumnWidths |-> ColumnWidths, LimitToList |-> LimitToList]

\* Lines 235-241: the three ifs on the DisplayControl code; no branch binds
\* display_control for another code.
BindDisplayControl(locals, Value) ==
    LET l1 == IF Value = 111 THEN DictSet(locals, "display_control", "Combo box") ELSE locals
        l2 == IF Value = 110 THEN DictSet(l1, "display_control", "List box") ELSE l1
    IN  IF Value = 109 THEN DictSet(l2, "display_control", "Text box") ELSE l2

\* Lines 235-253: the assignments one property makes to the local variables.
BindProperty(locals, property) ==
    LET l1 == IF property.Name = "DisplayControl"
              THEN BindDisplayControl(locals, property.Value) ELSE locals
        l2 == IF property.Name = "RowSourceType"
              THEN DictSet(l1, "row_source_type", property.Value) ELSE l1
        l3 == IF property.Name = "RowSource"
              THEN DictSet(l2, "row_source", property.Value) ELSE l2
        l4 == IF property.Name = "BoundColumn"
              THEN DictSet(l3, "bound_column", property.Value) ELSE l3
        l5 == IF property.Name = "ColumnCount"
              THEN DictSet(l4, "column_count", property.Value) ELSE l4
        l6 == IF property.Name = "ColumnWidths"
              THEN DictSet(l5, "column_widths", property.Value) ELSE l5
    IN  IF property.Name = "LimitToList"
        THEN DictSet(l6, "limit_to_list", property.Value) ELSE l6

\* Lines 234-257: the loop. Reading display_control at line 257 (debug > 1) while
\* it is unbound raises.
RECURSIVE ScanProperties(_, _, _)
ScanProperties(locals, properties, dbg) ==
    IF properties = << >> THEN locals
    ELSE LET bound == BindProperty(locals, Head(properties))
         IN  IF /\ dbg > 1
                /\ Head(properties).Name = "DisplayControl"
                /\ "display_control" \notin DOMAIN bound
             THEN Raised("UnboundLocalError")
             ELSE ScanProperties(bound, Tail(properties), dbg)

LookupLocals ==
    { "display_control", "row_source_type", "row_source", "bound_column",
      "column_count", "column_widths", "limit_to_list" }

\* GetLookupProperties on the properties of the field: lines 231-232 bind
\* column_widths and row_source, lines 258-260 read all seven local variables.
GetLookupProperties(properties, dbg) ==
    LET locals == ScanProperties([column_widths |-> "", row_source |-> ""], properties, dbg)
    IN  IF IsRaised(locals) THEN locals
        ELSE IF ~(LookupLocals \subseteq DOMAIN locals) THEN Raised("UnboundLocalError")
        ELSE Lookup(locals.display_control, locals.row_source_type, locals.row_source,
                    locals.bound_column, locals.column_count, locals.column_widths,
                    locals.limit_to_list)

(* =========================== class DataBase ============================ *)

\* The filter of TableList: the name starts neither with 'MSys' nor with '~'.
RetainedMSysOnly(Name) == ~StartsWith(Name, <<"M", "S", "y", "s">>)

Retained(Name) ==
    /\ ~StartsWith(Name, <<"M", "S", "y", "s">>)
    /\ ~StartsWith(Name, <<"~">>)

RECURSIVE AppendRetained(_, _)
AppendRetained(table_list, tables) ==
    IF tables = << >> THEN table_list
    ELSE AppendRetained(IF Retained(Head(tables).Name)
                        THEN Append(table_list, Head(tables).Name)
                        ELSE table_list,
                        Tail(tables))

\* TableList over db.TableDefs (isTable) or db.QueryDefs.
TableList(database, isTable) ==
    AppendRetained(<< >>, IF isTable THEN database.TableDefs ELSE database.QueryDefs)

\* The engine's lookup of an object by name: db.TableDefs(name), db.QueryDefs(name).
Item(collection, name) ==
    collection[CHOOSE i \in 1..Len(collection) : collection[i].Name = name]

\* Lines 80-81: the table's sub-map of the index, when it has one.
AttachForeignKeysNever(tbl, table, Rels) == tbl

AttachForeignKeys(tbl, table, Rels) ==
    IF table \in DOMAIN Rels
    THEN [tbl EXCEPT !.ForeignKeys = PyDict(Rels[table])]
    ELSE tbl

RECURSIVE LoadTablesInto(_, _, _, _, _)
LoadTablesInto(tables, table_list, isTable, database, Rels) ==
    IF table_list = << >> THEN tables
    ELSE LET table == Head(table_list)
             built == IF isTable
                      THEN AttachForeignKeys(
                               TableInit(Item(database.TableDefs, table), TRUE),
                               table, Rels)
                      ELSE TableInit(Item(database.QueryDefs, table), FALSE)
         IN  LoadTablesInto(DictSet(tables, table, built), Tail(table_list),
                            isTable, database, Rels)

LoadTables(table_list, isTable, database, Rels) ==
    LoadTablesInto(EmptyDict, table_list, isTable, database, Rels)

\* The if/elif chain of GetRelationships on rltn.Attributes:
\* <<JoinType, ReferentialIntegrity>>.
DecodeAttributesSwapped(Attributes) ==
    IF Attributes = 0 THEN <<"INNER", PyBool(TRUE)>>
    ELSE IF Attributes = 2 THEN <<"INNER", PyBool(FALSE)>>
    ELSE IF Attributes = 16777216 THEN <<"OUTER RELATED", PyBool(TRUE)>>
    ELSE IF Attributes = 16777218 THEN <<"OUTER RELATED", PyBool(FALSE)>>
    ELSE IF Attributes = 33554432 THEN <<"OUTER TABLE", PyBool(FALSE)>>
    ELSE IF Attributes = 33554434 THEN <<"OUTER TABLE", PyBool(TRUE)>>
    ELSE <<"UNKNOWN", None>>

DecodeAttributes(Attributes) ==
    IF Attributes = 0 THEN <<"INNER", PyBool(TRUE)>>
    ELSE IF Attributes = 2 THEN <<"INNER", PyBool(FALSE)>>
    ELSE IF Attributes = 16777216 THEN <<"OUTER RELATED", PyBool(TRUE)>>
    ELSE IF Attributes = 16777218 THEN <<"OUTER RELATED", PyBool(FALSE)>>
    ELSE IF Attributes = 33554432 THEN <<"OUTER TABLE", PyBool(TRUE)>>
    ELSE IF Attributes = 33554434 THEN <<"OUTER TABLE", PyBool(FALSE)>>
    ELSE <<"UNKNOWN", None>>

\* Lines 123-125: the Relationship built for one field pair of rltn.
NewRelationship(rltn, field) ==
    [Table |-> rltn.ForeignTable,
     Field |-> field.ForeignName,
     RelatedTable |-> rltn.Table,
     RelatedField |-> field.Name,
     EnforceIntegrity |-> DecodeAttributes(rltn.Attributes)[2],
     JoinType |-> DecodeAttributes(rltn.Attributes)[1],
     Attributes |-> rltn.Attributes]

\* Lines 97-100: the two outer levels of the index for rltn.
EnsureKeys(rels, rltn) ==
    LET r1 == IF rltn.ForeignTable \notin DOMAIN rels
              THEN DictSet(rels, rltn.ForeignTable, EmptyDict)
              ELSE rels
    IN  IF rltn.Table \notin DOMAIN r1[rltn.ForeignTable]
        THEN [r1 EXCEPT ![rltn.ForeignTable] = DictSet(@, rltn.Table, EmptyDict)]
        ELSE r1

\* Line 126: relationships[ForeignTable][Table][ForeignName] = new_rltn.
StoreRelationshipFirstWins(rels, rltn, field) ==
    IF field.ForeignName \in DOMAIN rels[rltn.ForeignTable][rltn.Table]
    THEN rels
    ELSE [rels EXCEPT ![rltn.ForeignTable][rltn.Table] =
             DictSet(@, field.ForeignName, NewRelationship(rltn, field))]

StoreRelationshipReplacing(rels, rltn, field) ==
    [rels EXCEPT ![rltn.ForeignTable][rltn.Table] =
        DictSet(EmptyDict, field.ForeignName, NewRelationship(rltn, field))]

StoreRelationship(rels, rltn, field) ==
    [rels EXCEPT ![rltn.ForeignTable][rltn.Table] =
        DictSet(@, field.ForeignName, NewRelationship(rltn, field))]

(* ============================== state ================================= *)

VARIABLES
    db,             \* DataBase._db: the engine's TableDefs, QueryDefs, Relations
    pc,             \* the statement of DataBase.__init__ about to run
    TableNames, QueryNames, Relationships, Tables, Queries,  \* DataBase attributes
    relationships,  \* GetRelationships: the dict under construction
    ri, fi,         \* GetRelationships: the relation and the field of the two loops
    table_meta, isTable,  \* Table.__init__: its arguments
    tpc,            \* Table.__init__: "new" before the call, "built" after
    descriptor,     \* Table.__init__: the attributes of self
    Properties,     \* GetLookupProperties: field_meta.Properties, in the engine's order
    debug,          \* GetLookupProperties: its debug argument
    lpc,            \* GetLookupProperties: "new" before the call, "ended" after
    lookup          \* GetLookupProperties: the Lookup returned, or the exception raised

dbVars == <<db, pc, TableNames, QueryNames, Relationships, Tables, Queries,
            relationships, ri, fi>>
tableVars == <<table_meta, isTable, tpc, descriptor>>
lookupVars == <<Properties, debug, lpc, lookup>>
vars == <<dbVars, tableVars, lookupVars>>

(* ------------------------------ inputs -------------------------------- *)

nS == <<"S">>
nP == <<"P">>
nA == <<"a">>
nB == <<"b">>

\* Object names: with the reserved prefix, with the marker first, with either
\* elsewhere in the name, and ordinary ones.
TableNamePool ==
    { <<"M", "S", "y", "s">>, <<"M", "S", "y", "s", "O">>, <<"M", "S", "y">>,
      <<"m", "S", "y", "s">>, <<"~", "T">>, <<"a", "~">>, nS, nP }

QueryNamePool ==
    { <<"~", "q">>, <<"q", "~">>, <<"M", "S", "y", "s", "Q">>, <<"Q">> }

FieldHandle(Name, Type, Attributes, Size) ==
    [Name |-> Name, Type |-> Type, Attributes |-> Attributes, Size |-> Size]

IndexHandle(Primary, names) ==
    [Primary |-> Primary, Fields |-> [i \in 1..Len(names) |-> [Name |-> names[i]]]]

TableHandle(Name, RecordCount, Indexes, Fields) ==
    [Name |-> Name, RecordCount |-> RecordCount, Indexes |-> Indexes, Fields |-> Fields]

QueryHandle(Name, SQL, Fields) == [Name |-> Name, SQL |-> SQL, Fields |-> Fields]

SampleFields == << FieldHandle(<<"i", "d">>, 4, 17, 4), FieldHandle(nA, 10, 2, 255) >>

SampleTable(Name) ==
    TableHandle(Name, Len(Name), << IndexHandle(TRUE, << <<"i", "d">> >>) >>, SampleFields)

SampleQuery(Name) == QueryHandle(Name, "SELECT 1", SampleFields)

RawRelation(ForeignTable, Table, Attributes, Fields) ==
    [ForeignTable |-> ForeignTable, Table |-> Table, Attributes |-> Attributes,
     Fields |-> Fields]

FieldPair(ForeignName, Name) == [ForeignName |-> ForeignName, Name |-> Name]

RelationEnds == { <<nS, nP>>, <<nP, nS>> }

RelationFieldLists ==
    { << >>,
      << FieldPair(nA, nB) >>,
      << FieldPair(nB, nA) >>,
      << FieldPair(nA, nA), FieldPair(nB, nB) >>,
      << FieldPair(nA, nA), FieldPair(nA, nB) >> }

RelationAttributes == {0, 16777218}

RawRelations ==
    { RawRelation(e[1], e[2], a, f) :
        e \in RelationEnds, a \in RelationAttributes, f \in RelationFieldLists }

\* Attributes values in and around the six the code names.
AttributePool ==
    { 0, 2, 16777216, 16777218, 33554432, 33554434,
      -1, 1, 3, 4, 16777217, 33554433, 33554436, 50331648 }

DecodeRelations ==
    { << RawRelation(nS, nP, a, << FieldPair(nA, nB) >>) >> : a \in AttributePool }

SampleRelations ==
    { << >>, << RawRelation(nS, nP, 0, << FieldPair(nA, nA), FieldPair(nB, nB) >>) >> }

Catalog(tables, queries, relations) ==
    [TableDefs |-> [i \in 1..Len(tables) |-> SampleTable(tables[i])],
     QueryDefs |-> [i \in 1..Len(queries) |-> SampleQuery(queries[i])],
     Relations |-> relations]

SampleQueryNames ==
    { << >>, << <<"M", "S", "y", "s", "Q">>, <<"~", "q">>, <<"Q">> >> }

\* The databases the loader is run on: the table names vary, or the query names,
\* or the relations, the rest of the catalog being one of a few samples.
IsCatalog(database) ==
    \/ \E k \in 0..MaxTables : \E t \in [1..k -> TableNamePool] :
          \E q \in SampleQueryNames, r \in SampleRelations :
             Distinct(t) /\ database = Catalog(t, q, r)
    \/ \E k \in 0..MaxQueries : \E q \in [1..k -> QueryNamePool] :
          \E r \in SampleRelations :
             Distinct(q) /\ database = Catalog(<<nS, nP>>, q, r)
    \/ \E k \in 0..MaxRelations : \E r \in [1..k -> RawRelations] :
          database = Catalog(<<nS, nP>>, << <<"Q">> >>, r)
    \/ \E r \in DecodeRelations :
          database = Catalog(<<nS, nP>>, << <<"Q">> >>, r)

IndexPool ==
    { IndexHandle(p, n) : p \in BOOLEAN, n \in { << >>, <<nA>>, <<nB>>, <<nA, nB>> } }

TypePool == {0, 1, 3, 4, 7, 8, 10, 12}
FieldAttributePool == {0, 1, 16, 17, 18, 19}

FieldPool == { FieldHandle(<<"c">>, t, a, 4) : t \in TypePool, a \in FieldAttributePool }

ColumnPool ==
    { FieldHandle(<<"c">>, 4, 17, 4), FieldHandle(<<"c">>, 4, 18, 4),
      FieldHandle(<<"c">>, 4, 0, 4), FieldHandle(<<"c">>, 1, 17, 1),
      FieldHandle(<<"d">>, 10, 0, 255), FieldHandle(<<"d">>, 3, 18, 2) }

\* The calls Table(table_meta, isTable) that are made: tables whose indexes vary,
\* queries whose name and SQL vary, objects of both kinds whose fields vary, and
\* Table() without an object.
IsTableCall(meta, kind) ==
    \/ \E k \in 0..MaxIndexes : \E x \in [1..k -> IndexPool] : \E n \in {0, 3} :
          meta = TableHandle(<<"T">>, n, x, SampleFields) /\ kind = TRUE
    \/ \E n \in TableNamePool \cup QueryNamePool, q \in {"", "SELECT 1"} :
          meta = QueryHandle(n, q, SampleFields) /\ kind = FALSE
    \/ \E k \in 0..MaxColumns : \E f \in [1..k -> ColumnPool] :
          \/ meta = TableHandle(<<"T">>, 1, << >>, f) /\ kind = TRUE
          \/ meta = QueryHandle(<<"Q">>, "SELECT 1", f) /\ kind = FALSE
    \/ \E f \in FieldPool :
          \/ meta = TableHandle(<<"T">>, 1, << >>, <<f>>) /\ kind = TRUE
          \/ meta = QueryHandle(<<"Q">>, "SELECT 1", <<f>>) /\ kind = FALSE
    \/ meta = None /\ kind \in BOOLEAN

(* ========================= DataBase.__init__ =========================== *)

LookupIdle ==
    /\ lpc = "idle" /\ Properties = << >> /\ debug = 0 /\ lookup = None

DbIdle ==
    /\ pc = "idle"
    /\ db = Catalog(<< >>, << >>, << >>)
    /\ TableNames = None /\ QueryNames = None /\ Relationships = None
    /\ Tables = None /\ Queries = None
    /\ relationships = EmptyDict /\ ri = 1 /\ fi = 0

TableIdle ==
    /\ tpc = "idle" /\ table_meta = None /\ isTable = TRUE /\ descriptor = None

\* DataBase(dbPath) is entered: the engine has opened the database, no attribute
\* of self is set yet.
Init ==
    /\ IsCatalog(db)
    /\ pc = "TableNames"
    /\ TableNames = None /\ QueryNames = None /\ Relationships = None
    /\ Tables = None /\ Queries = None
    /\ relationships = EmptyDict /\ ri = 1 /\ fi = 0
    /\ TableIdle
    /\ LookupIdle

\* self.TableNames = self.TableList()
SetTableNames ==
    /\ pc = "TableNames"
    /\ TableNames' = TableList(db, TRUE)
    /\ pc' = "QueryNames"
    /\ UNCHANGED <<db, QueryNames, Relationships, Tables, Queries, relationships, ri, fi>>
    /\ UNCHANGED <<tableVars, lookupVars>>

\* self.QueryNames = self.TableList(isTable=False)
SetQueryNames ==
    /\ pc = "QueryNames"
    /\ QueryNames' = TableList(db, FALSE)
    /\ pc' = "Relationships"
    /\ UNCHANGED <<db, TableNames, Relationships, Tables, Queries, relationships, ri, fi>>
    /\ UNCHANGED <<tableVars, lookupVars>>

\* GetRelationships, lines 96-100: the next relation is taken and its two outer
\* keys are made; a relation without fields is done with that.
GetRelationshipsEnter ==
    /\ pc = "Relationships"
    /\ ri <= Len(db.Relations)
    /\ fi = 0
    /\ relationships' = EnsureKeys(relationships, db.Relations[ri])
    /\ IF Len(db.Relations[ri].Fields) = 0
       THEN ri' = ri + 1 /\ fi' = 0
       ELSE ri' = ri /\ fi' = 1
    /\ UNCHANGED <<db, pc, TableNames, QueryNames, Relationships, Tables, Queries>>
    /\ UNCHANGED <<tableVars, lookupVars>>

\* GetRelationships, lines 101-126: one field pair of the relation is stored.
GetRelationshipsField ==
    /\ pc = "Relationships"
    /\ ri <= Len(db.Relations)
    /\ fi >= 1
    /\ relationships' =
          StoreRelationship(relationships, db.Relations[ri], db.Relations[ri].Fields[fi])
    /\ IF fi = Len(db.Relations[ri].Fields)
       THEN ri' = ri + 1 /\ fi' = 0
       ELSE ri' = ri /\ fi' = fi + 1
    /\ UNCHANGED <<db, pc, TableNames, QueryNames, Relationships, Tables, Queries>>
    /\ UNCHANGED <<tableVars, lookupVars>>

\* GetRelationships, line 134, and self.Relationships = its result.
GetRelationshipsReturn ==
    /\ pc = "Relationships"
    /\ ri > Len(db.Relations)
    /\ Relationships' = relationships
    /\ pc' = "Tables"
    /\ UNCHANGED <<db, TableNames, QueryNames, Tables, Queries, relationships, ri, fi>>
    /\ UNCHANGED <<tableVars, lookupVars>>

\* self.Tables = self.LoadTables(self.TableNames)
SetTables ==
    /\ pc = "Tables"
    /\ Tables' = LoadTables(TableNames, TRUE, db, Relationships)
    /\ pc' = "Queries"
    /\ UNCHANGED <<db, TableNames, QueryNames, Relationships, Queries, relationships, ri, fi>>
    /\ UNCHANGED <<tableVars, lookupVars>>

\* self.Queries = self.LoadTables(self.QueryNames, isTable=False)
SetQueries ==
    /\ pc = "Queries"
    /\ Queries' = LoadTables(QueryNames, FALSE, db, Relationships)
    /\ pc' = "done"
    /\ UNCHANGED <<db, TableNames, QueryNames, Relationships, Tables, relationships, ri, fi>>
    /\ UNCHANGED <<tableVars, lookupVars>>

Next ==
    \/ SetTableNames
    \/ SetQueryNames
    \/ GetRelationshipsEnter
    \/ GetRelationshipsField
    \/ GetRelationshipsReturn
    \/ SetTables
    \/ SetQueries

Spec == Init /\ [][Next]_vars

(* =========================== Table.__init__ ============================ *)

InitTable ==
    /\ DbIdle
    /\ LookupIdle
    /\ IsTableCall(table_meta, isTable)
    /\ tpc = "new"
    /\ descriptor = None

\* Table(table_meta, isTable): the whole constructor.
TableConstruct ==
    /\ tpc = "new"
    /\ descriptor' = TableInit(table_meta, isTable)
    /\ tpc' = "built"
    /\ UNCHANGED <<table_meta, isTable>>
    /\ UNCHANGED <<dbVars, lookupVars>>

NextTable == TableConstruct

SpecTable == InitTable /\ [][NextTable]_vars

(* ========================= GetLookupProperties ========================= *)

Property(Name, Value) == [Name |-> Name, Value |-> Value]

DisplayControlCodes == {106, 109, 110, 111}

\* The properties a field may carry besides DisplayControl, in the engine's order;
\* two of them have names the extractor does not know.
OtherProperties ==
    << Property("Description", "trained soldier"),
       Property("RowSourceType", "Table/Query"),
       Property("RowSource", "SELECT soldierID FROM Soldier"),
       Property("BoundColumn", 1),
       Property("ColumnCount", 2),
       Property("ColumnWidths", "0;1440"),
       Property("LimitToList", TRUE),
       Property("rowsource", "Soldier") >>

Keep(s, present) == SelectSeq(s, LAMBDA x : x.Name \in present)

Reverse(s) == [i \in 1..Len(s) |-> s[Len(s) + 1 - i]]

\* Property bags: any subset of the properties, with or without a DisplayControl,
\* enumerated forwards or backwards. Property names are unique in a bag.
PropertyBags ==
    LET names == { OtherProperties[i].Name : i \in 1..Len(OtherProperties) }
        plain == { Keep(OtherProperties, present) : present \in SUBSET names }
        withDC == { <<Property("DisplayControl", c)>> \o b : c \in DisplayControlCodes, b \in plain }
    IN  { b : b \in plain \cup withDC } \cup { Reverse(b) : b \in plain \cup withDC }

InitLookup ==
    /\ DbIdle
    /\ TableIdle
    /\ Properties \in PropertyBags
    /\ debug \in {0, 2}
    /\ lpc = "new"
    /\ lookup = None

\* GetLookupProperties(fieldName, debug): the whole call.
LookupCall ==
    /\ lpc = "new"
    /\ lookup' = GetLookupProperties(Properties, debug)
    /\ lpc' = "ended"
    /\ UNCHANGED <<Properties, debug>>
    /\ UNCHANGED <<dbVars, tableVars>>

NextLookup == LookupCall

SpecLookup == InitLookup /\ [][NextLookup]_vars

(* ============================= properties ============================== *)

\* The field pairs GetRelationships has stored so far: <<relation, field>> indexes.
Processed ==
    UNION { { <<r, f>> : f \in { x \in 1..Len(db.Relations[r].Fields) : r < ri \/ x < fi } } :
            r \in { x \in 1..Len(db.Relations) : x <= ri } }

\* The attributes DataBase.__init__ has assigned so far.
HasTableNames == pc \in {"QueryNames", "Relationships", "Tables", "Queries", "done"}
HasQueryNames == pc \in {"Relationships", "Tables", "Queries", "done"}
HasRelationships == pc \in {"Tables", "Queries", "done"}
HasTables == pc \in {"Queries", "done"}
HasQueries == pc = "done"

RelationOf(p) == db.Relations[p[1]]
PairOf(p) == db.Relations[p[1]].Fields[p[2]]
TripleOf(p) == <<RelationOf(p).ForeignTable, RelationOf(p).Table, PairOf(p).ForeignName>>

\* The key triples of an index.
Triples(index) ==
    UNION { UNION { { <<ft, t, f>> : f \in DOMAIN index[ft][t] } : t \in DOMAIN index[ft] } :
            ft \in DOMAIN index }

\* The processed pairs stored under one key triple, and the last of them in
\* enumeration order.
PairsAt(k) == { p \in Processed : TripleOf(p) = k }

Later(p, q) == p[1] > q[1] \/ (p[1] = q[1] /\ p[2] > q[2])

LastAt(k) == CHOOSE p \in PairsAt(k) : \A q \in PairsAt(k) : q = p \/ Later(p, q)

\* The index under construction and, once GetRelationships has returned, the
\* attribute it was assigned to.
Indexes == {relationships} \cup (IF HasRelationships THEN {Relationships} ELSE {})

\* The fixed table of Attributes values: <<JoinType, EnforceIntegrity>>.
FixedTable(a) ==
    CASE a = 0 -> <<"INNER", PyBool(TRUE)>>
      [] a = 2 -> <<"INNER", PyBool(FALSE)>>
      [] a = 16777216 -> <<"OUTER RELATED", PyBool(TRUE)>>
      [] a = 16777218 -> <<"OUTER RELATED", PyBool(FALSE)>>
      [] a = 33554432 -> <<"OUTER TABLE", PyBool(TRUE)>>
      [] a = 33554434 -> <<"OUTER TABLE", PyBool(FALSE)>>
      [] OTHER -> <<"UNKNOWN", None>>

\* C1: every field pair of a processed relation is stored (the decode never
\* fails), and every stored Relationship carries the Attributes of a processed
\* relation with its key and the <<JoinType, EnforceIntegrity>> the fixed table
\* gives for them, <<UNKNOWN, None>> for a value outside the table.
C1_DecodeMatchesFixedTable ==
    \A index \in Indexes :
        /\ \A p \in Processed : TripleOf(p) \in Triples(index)
        /\ \A k \in Triples(index) :
              LET e == index[k[1]][k[2]][k[3]]
              IN  /\ \E p \in PairsAt(k) : RelationOf(p).Attributes = e.Attributes
                  /\ <<e.JoinType, e.EnforceIntegrity>> = FixedTable(e.Attributes)

\* C1 witness: the load is finished and holds a Relationship decoded from
\* 33554434 as an outer join on the table without integrity.
C1_Witness ==
    /\ pc = "done"
    /\ \E k \in Triples(Relationships) :
          LET e == Relationships[k[1]][k[2]][k[3]]
          IN  /\ e.Attributes = 33554434
              /\ e.JoinType = "OUTER TABLE"
              /\ e.EnforceIntegrity = PyBool(FALSE)

\* A name with the reserved system prefix 'MSys' or the internal marker '~' first.
Reserved(n) ==
    \/ Len(n) >= 4 /\ n[1] = "M" /\ n[2] = "S" /\ n[3] = "y" /\ n[4] = "s"
    \/ Len(n) >= 1 /\ n[1] = "~"

Enumerated(collection) == { collection[i].Name : i \in 1..Len(collection) }

NamesExactlyUnreserved(names, collection) ==
    names = { n \in Enumerated(collection) : ~Reserved(n) }

\* C3: once set, TableNames and QueryNames hold exactly the enumerated names that
\* are not reserved, and Tables and Queries have exactly those names as keys.
C3_ReservedNamesExcluded ==
    /\ HasTableNames => NamesExactlyUnreserved(Range(TableNames), db.TableDefs)
    /\ HasQueryNames => NamesExactlyUnreserved(Range(QueryNames), db.QueryDefs)
    /\ HasTables => NamesExactlyUnreserved(DOMAIN Tables, db.TableDefs)
    /\ HasQueries => NamesExactlyUnreserved(DOMAIN Queries, db.QueryDefs)

\* C3 witness: a loaded database whose catalog has a table with the marker first,
\* a query with the system prefix and a retained table and query.
C3_Witness ==
    /\ pc = "done"
    /\ \E n \in Enumerated(db.TableDefs) : n[1] = "~"
    /\ \E n \in Enumerated(db.QueryDefs) : Len(n) > 4 /\ SubSeq(n, 1, 4) = <<"M", "S", "y", "s">>
    /\ DOMAIN Tables /= {}
    /\ DOMAIN Queries /= {}

\* C4: when two stored field pairs have the same ForeignTable and Table and
\* distinct ForeignNames, the index holds an entry for each under
\* index[ForeignTable][Table], with that ForeignName as its Field and the Name of
\* a pair of its own key as its RelatedField (the pair's own when it is the only
\* one); no key triple of a stored pair is missing from the index.
C4_DistinctForeignFieldsKept ==
    \A index \in Indexes :
        \A p, q \in Processed :
            (/\ TripleOf(p)[1] = TripleOf(q)[1]
             /\ TripleOf(p)[2] = TripleOf(q)[2]
             /\ TripleOf(p)[3] /= TripleOf(q)[3])
            => /\ TripleOf(p) \in Triples(index)
               /\ TripleOf(q) \in Triples(index)
               /\ LET k == TripleOf(p)
                      e == index[k[1]][k[2]][k[3]]
                  IN  /\ e.Field = k[3]
                      /\ e.RelatedField \in { PairOf(x).Name : x \in PairsAt(k) }
                      /\ e /= index[k[1]][k[2]][TripleOf(q)[3]]

\* C4 witness: GetRelationships has returned an index with two entries under one
\* <<ForeignTable, Table>>, stored from two different raw relations.
C4_Witness ==
    /\ HasRelationships
    /\ \E p, q \in Processed :
          /\ p[1] /= q[1]
          /\ TripleOf(p)[1] = TripleOf(q)[1]
          /\ TripleOf(p)[2] = TripleOf(q)[2]
          /\ TripleOf(p)[3] /= TripleOf(q)[3]
          /\ PairOf(p).Name /= PairOf(q).Name
          /\ Cardinality(DOMAIN Relationships[TripleOf(p)[1]][TripleOf(p)[2]]) = 2

\* Every relation of the catalog has its two outer keys in the index and every
\* one of its field pairs has its key triple there.
Complete(index) ==
    \A r \in 1..Len(db.Relations) :
        LET rltn == db.Relations[r]
        IN  /\ rltn.ForeignTable \in DOMAIN index
            /\ rltn.Table \in DOMAIN index[rltn.ForeignTable]
            /\ \A f \in 1..Len(rltn.Fields) :
                  rltn.Fields[f].ForeignName \in DOMAIN index[rltn.ForeignTable][rltn.Table]

\* C5: whenever Tables is set, the index is complete and every table descriptor's
\* ForeignKeys is the index's sub-map for its name, or '' when the name is not a
\* key of the index; no query descriptor has a ForeignKeys.
C5_ForeignKeysAttached ==
    /\ HasTables =>
          /\ HasRelationships
          /\ Complete(Relationships)
          /\ \A T \in Range(TableNames) :
                /\ T \in DOMAIN Tables
                /\ Tables[T].ForeignKeys =
                      IF T \in DOMAIN Relationships
                      THEN PyDict(Relationships[T])
                      ELSE PyStr("")
    /\ HasQueries =>
          \A Q \in DOMAIN Queries : "ForeignKeys" \notin DOMAIN Queries[Q]

\* C5 witness: a loaded database with a table that is a key of the index and has
\* a stored Relationship, a table that is not a key, and a query.
C5_Witness ==
    /\ pc = "done"
    /\ \E T \in DOMAIN Tables :
          /\ T \in DOMAIN Relationships
          /\ \E k \in Triples(Relationships) : k[1] = T
          /\ Tables[T].ForeignKeys = PyDict(Relationships[T])
    /\ \E T \in DOMAIN Tables : T \notin DOMAIN Relationships /\ Tables[T].ForeignKeys = PyStr("")
    /\ DOMAIN Queries /= {}

\* C10: at every step of GetRelationships and in its result, the entry under a
\* key triple is the Relationship of the last stored field pair with that triple:
\* its Table, RelatedTable and Field are the three keys, its RelatedField the
\* pair's Name, its Attributes the relation's and its JoinType and
\* EnforceIntegrity the fixed table's for them.
C10_LastPairWins ==
    \A index \in Indexes :
        \A k \in Triples(index) :
            /\ PairsAt(k) /= {}
            /\ LET p == LastAt(k)
                   e == index[k[1]][k[2]][k[3]]
               IN  /\ e.Table = k[1]
                   /\ e.RelatedTable = k[2]
                   /\ e.Field = k[3]
                   /\ e.RelatedField = PairOf(p).Name
                   /\ e.Attributes = RelationOf(p).Attributes
                   /\ <<e.JoinType, e.EnforceIntegrity>> = FixedTable(RelationOf(p).Attributes)

\* C10 witness: inside GetRelationships, two stored pairs of different relations
\* share a key triple and differ in Name and Attributes, and the entry is the
\* later one's.
C10_Witness ==
    /\ pc = "Relationships"
    /\ \E p, q \in Processed :
          /\ Later(q, p)
          /\ p[1] /= q[1]
          /\ TripleOf(p) = TripleOf(q)
          /\ PairOf(p).Name /= PairOf(q).Name
          /\ RelationOf(p).Attributes /= RelationOf(q).Attributes
          /\ q = LastAt(TripleOf(q))
          /\ relationships[TripleOf(q)[1]][TripleOf(q)[2]][TripleOf(q)[3]].RelatedField = PairOf(q).Name

\* The classification table of raw <<type, attributes>> pairs.
ColumnTypeTable(rawType, rawAttributes) ==
    CASE rawType = 1 -> "Yes/No"
      [] rawType = 4 /\ rawAttributes \in {17, 18} -> "Autonumber"
      [] rawType = 4 /\ rawAttributes \notin {17, 18} -> "LongInteger"
      [] rawType = 7 -> "Double"
      [] rawType = 8 -> "Date/Time"
      [] rawType = 10 -> "ShortText"
      [] OTHER -> "UNKNOWN"

Built == tpc = "built" /\ table_meta /= None

\* C2: a built descriptor has one ColumnMeta per field, labelled as the
\* classification table labels the field's <<Type, Attributes>>; two fields of a
\* type other than 4 that differ only in Attributes get the same label.
C2_ClassifyColumnTotal ==
    Built =>
        /\ Len(descriptor.ColumnMetaData) = Len(table_meta.Fields)
        /\ descriptor.ColumnCount = Len(table_meta.Fields)
        /\ \A i \in 1..Len(table_meta.Fields) :
              LET Field == table_meta.Fields[i]
                  column == descriptor.ColumnMetaData[i]
              IN  /\ column.Type = ColumnTypeTable(Field.Type, Field.Attributes)
                  /\ column.Name = Field.Name
                  /\ column.Size = Field.Size
                  /\ \A j \in 1..Len(table_meta.Fields) :
                        (Field.Type /= 4 /\ table_meta.Fields[j].Type = Field.Type)
                        => descriptor.ColumnMetaData[j].Type = column.Type

\* C2 witness: a descriptor built from a type-4 field with attributes 18 and a
\* type-4 field with attributes 0, labelled Autonumber and LongInteger.
C2_Witness ==
    /\ Built
    /\ Len(table_meta.Fields) = 2
    /\ table_meta.Fields[1].Type = 4 /\ table_meta.Fields[1].Attributes = 18
    /\ table_meta.Fields[2].Type = 4 /\ table_meta.Fields[2].Attributes = 0
    /\ descriptor.ColumnMetaData[1].Type = "Autonumber"
    /\ descriptor.ColumnMetaData[2].Type = "LongInteger"

\* The name holds the internal marker '~' at some position.
HasMarker(n) == "~" \in Range(n)

\* C8: a built query descriptor has the sentinel 0 as SQL when its name holds the
\* marker anywhere and the raw SQL text otherwise, and None as RecordCount.
C8_QuerySQL ==
    (Built /\ ~isTable) =>
        /\ descriptor.SQL = IF HasMarker(table_meta.Name)
                            THEN PyInt(0)
                            ELSE PyStr(table_meta.SQL)
        /\ descriptor.RecordCount = None
        /\ descriptor.TableType = "QUERY"

\* C8 witness: a built query whose name holds the marker after its first
\* character and whose raw SQL is not empty; its SQL is the sentinel.
C8_Witness ==
    /\ Built /\ ~isTable
    /\ table_meta.Name[1] /= "~"
    /\ HasMarker(table_meta.Name)
    /\ table_meta.SQL /= ""
    /\ descriptor.SQL = PyInt(0)

PrimaryIndexes == { i \in 1..Len(table_meta.Indexes) : table_meta.Indexes[i].Primary }

RECURSIVE SumOver(_, _)
SumOver(S, f) ==
    IF S = {} THEN 0
    ELSE LET x == CHOOSE x \in S : TRUE IN f[x] + SumOver(S \ {x}, f)

\* C9: a built table descriptor's PrimaryKeys holds the field names of the
\* indexes flagged primary and nothing else, one element per field of such an
\* index; it is the empty list when no index is flagged primary.
C9_PrimaryKeysExact ==
    (Built /\ isTable) =>
        /\ Range(descriptor.PrimaryKeys) =
              UNION { { table_meta.Indexes[i].Fields[j].Name :
                          j \in 1..Len(table_meta.Indexes[i].Fields) } :
                      i \in PrimaryIndexes }
        /\ Len(descriptor.PrimaryKeys) =
              SumOver(PrimaryIndexes,
                      [i \in PrimaryIndexes |-> Len(table_meta.Indexes[i].Fields)])
        /\ PrimaryIndexes = {} => descriptor.PrimaryKeys = << >>

\* C9 witness: a built table with an index not flagged primary that has a field
\* and a primary index with another field; only the latter is in PrimaryKeys.
C9_Witness ==
    /\ Built /\ isTable
    /\ Len(table_meta.Indexes) = 2
    /\ ~table_meta.Indexes[1].Primary /\ table_meta.Indexes[1].Fields = <<[Name |-> nA]>>
    /\ table_meta.Indexes[2].Primary /\ table_meta.Indexes[2].Fields = <<[Name |-> nB]>>
    /\ descriptor.PrimaryKeys = <<nB>>

\* C9, the other case: a built table without any primary index has PrimaryKeys = [].
NoPrimaryIndexReached ==
    /\ Built /\ isTable
    /\ Len(table_meta.Indexes) > 0
    /\ PrimaryIndexes = {}
    /\ descriptor.PrimaryKeys = << >>

PropertyNames == { Properties[i].Name : i \in 1..Len(Properties) }

LookupPropertyNames ==
    { "DisplayControl", "RowSourceType", "RowSource", "BoundColumn", "ColumnCount",
      "ColumnWidths", "LimitToList" }

RequiredPropertyNames ==
    { "DisplayControl", "RowSourceType", "BoundColumn", "ColumnCount", "LimitToList" }

DisplayControlTable(code) ==
    CASE code = 111 -> "Combo box"
      [] code = 110 -> "List box"
      [] code = 109 -> "Text box"
      [] OTHER -> "UNKNOWN"

DisplayControlCode == Properties[CHOOSE i \in 1..Len(Properties) : Properties[i].Name = "DisplayControl"].Value

\* C6: for a bag with all seven lookup properties the call returns a Lookup whose
\* DisplayControl is Combo box for 111, List box for 110, Text box for 109 and
\* Unknown for any other code.
C6_DisplayControlMapped ==
    (lpc = "ended" /\ LookupPropertyNames \subseteq PropertyNames) =>
        /\ ~IsRaised(lookup)
        /\ lookup.DisplayControl = DisplayControlTable(DisplayControlCode)

\* C6 restricted to the three codes the code names.
KnownDisplayControlMapped ==
    (/\ lpc = "ended"
     /\ LookupPropertyNames \subseteq PropertyNames
     /\ DisplayControlCode \in {109, 110, 111}) =>
        /\ ~IsRaised(lookup)
        /\ lookup.DisplayControl = DisplayControlTable(DisplayControlCode)

\* C7: with the five required properties present the call returns a Lookup, in
\* which an absent RowSource or ColumnWidths is ''; with one of the five absent
\* it raises; the properties with other names do not change the outcome.
C7_MissingProperties ==
    lpc = "ended" =>
        /\ RequiredPropertyNames \subseteq PropertyNames =>
              /\ ~IsRaised(lookup)
              /\ "RowSource" \notin PropertyNames => lookup.RowSource = ""
              /\ "ColumnWidths" \notin PropertyNames => lookup.ColumnWidths = ""
        /\ ~(RequiredPropertyNames \subseteq PropertyNames) => IsRaised(lookup)
        /\ lookup = GetLookupProperties(Keep(Properties, LookupPropertyNames), debug)

\* C7 with the DisplayControl code restricted to the three the code names.
KnownMissingProperties ==
    (/\ lpc = "ended"
     /\ "DisplayControl" \in PropertyNames => DisplayControlCode \in {109, 110, 111}) =>
        /\ RequiredPropertyNames \subseteq PropertyNames =>
              /\ ~IsRaised(lookup)
              /\ "RowSource" \notin PropertyNames => lookup.RowSource = ""
              /\ "ColumnWidths" \notin PropertyNames => lookup.ColumnWidths = ""
        /\ ~(RequiredPropertyNames \subseteq PropertyNames) => IsRaised(lookup)
        /\ lookup = GetLookupProperties(Keep(Properties, LookupPropertyNames), debug)

=============================================================================
